---- MODULE Spec2Model ----
(***************************************************************************)
(* Model of two parts of starlark-rust:                                    *)
(*   - VecMap, the linear bucket store (starlark_map/src/vec_map/mod.rs);  *)
(*   - BcInstrArg, the instruction argument contract and its impls         *)
(*     (starlark/src/eval/bc/instr_arg.rs).                                *)
(* Option<T> is modelled as a tuple: None == <<>>, Some(x) == <<x>>.       *)
(* Text is modelled as a sequence of characters.                           *)
(***************************************************************************)
EXTENDS Integers, Sequences, FiniteSets, TLC

VARIABLES
    buckets,    \* VecMap::buckets, the Vec<Bucket<K, V>> of the map
    other,      \* the buckets of a second VecMap (the `other` of eq_ordered)
    last,       \* the last operation called, its arguments and its result
    log,        \* history: every (hash, key, value) passed to insert_unique_unchecked
    nRem,       \* history: number of removals that returned an entry
    arg,        \* an instruction argument (a value of a type implementing BcInstrArg)
    out         \* the text written so far to the `f: &mut dyn Write` of fmt_append

vars == <<buckets, other, last, log, nRem, arg, out>>

(***************************************************************************)
(* Bounds of the model.                                                    *)
(***************************************************************************)
MaxKey == 3
MaxValue == 2
MaxFewKey == 2
MaxWideValue == 3
MaxHash == 1
MaxInserts == 3

Keys == 1..MaxKey
Values == 1..MaxValue
FewKeys == 1..MaxFewKey
WideValues == 1..MaxWideValue
Hashes == 0..MaxHash

None == <<>>
Some(x) == <<x>>

(***************************************************************************)
(* Hashed<K>: a key with a hash.  Hashed::new_unchecked(hash, key) stores  *)
(* the hash it is given.  The canonical hash of the model's keys collides  *)
(* (keys 1 and 3), so that a hash match does not imply key equivalence.    *)
(***************************************************************************)
Hashed(hash, key) == [hash |-> hash, key |-> key]
CanonHash(key) == key % (MaxHash + 1)
AllHashed == [hash : Hashes, key : Keys]

\* Q: Equivalent<K>, `key.key().equivalent(&b.key)`; the model's borrowed
\* keys are drawn from the same domain as the owned keys.
Equivalent(q, k) == q = k

Bucket(hash, key, value) == [hash |-> hash, key |-> key, value |-> value]

(***************************************************************************)
(* #[derive(PartialEq)] on Bucket: field-wise equality of hash, key, value.*)
(***************************************************************************)
BucketEqKeyValueOnly(a, b) == a.key = b.key /\ a.value = b.value
BucketEq(a, b) == a.hash = b.hash /\ a.key = b.key /\ a.value = b.value

(***************************************************************************)
(* Vec operations used by VecMap.                                          *)
(***************************************************************************)
VecPushFront(v, x) == <<x>> \o v
\* Vec::push(x)
VecPush(v, x) == Append(v, x)

VecRemoveTruncate(v, i) == SubSeq(v, 1, i)

VecRemoveSwap(v, i) ==
    IF i = Len(v) - 1 THEN SubSeq(v, 1, Len(v) - 1)
    ELSE SubSeq(v, 1, i) \o <<v[Len(v)]>> \o SubSeq(v, i + 2, Len(v) - 1)
\* Vec::remove(index), 0-based index, shifting the tail left
VecRemove(v, i) == SubSeq(v, 1, i) \o SubSeq(v, i + 2, Len(v))

\* Vec::pop() on a non-empty vector: the vector without its last element
VecPop(v) == SubSeq(v, 1, Len(v) - 1)

\* slice equality of Vec<Bucket>: same length and element-wise PartialEq
VecEq(a, b) ==
    /\ Len(a) = Len(b)
    /\ \A i \in 1..Len(a) : BucketEq(a[i], b[i])

(***************************************************************************)
(* get_full: linear scan, the first bucket whose stored hash equals the    *)
(* lookup hash and whose key is equivalent; i is the 0-based position.     *)
(***************************************************************************)
RECURSIVE ScanFromBack(_, _, _)
ScanFromBack(self, key, i) ==
    IF i >= Len(self) THEN None
    ELSE LET rest == ScanFromBack(self, key, i + 1)
         IN  IF rest # None THEN rest
             ELSE IF self[i + 1].hash = key.hash /\ Equivalent(key.key, self[i + 1].key)
                  THEN Some(i)
                  ELSE None

RECURSIVE ScanFrom(_, _, _)
ScanFrom(self, key, i) ==
    IF i >= Len(self) THEN None
    ELSE IF self[i + 1].hash = key.hash /\ Equivalent(key.key, self[i + 1].key)
         THEN Some(i)
         ELSE ScanFrom(self, key, i + 1)

RECURSIVE ScanFromKeyOnly(_, _, _)
ScanFromKeyOnly(self, key, i) ==
    IF i >= Len(self) THEN None
    ELSE IF Equivalent(key.key, self[i + 1].key)
         THEN Some(i)
         ELSE ScanFromKeyOnly(self, key, i + 1)

get_full_ignoring_hash(self, key) ==
    LET r == ScanFromKeyOnly(self, key, 0)
    IN  IF r = None THEN None
        ELSE Some(<<r[1], self[r[1] + 1].key, self[r[1] + 1].value>>)
get_full(self, key) ==
    LET r == ScanFrom(self, key, 0)
    IN  IF r = None THEN None
        ELSE Some(<<r[1], self[r[1] + 1].key, self[r[1] + 1].value>>)

get_index_of_hashed(self, key) ==
    LET r == get_full(self, key)
    IN  IF r = None THEN None ELSE Some(r[1][1])

get_index(self, index) ==
    IF index < Len(self)
    THEN Some(<<self[index + 1].key, self[index + 1].value>>)
    ELSE None

get_unchecked_first_hash(self, index) ==
    <<Hashed(self[1].hash, self[index + 1].key), self[index + 1].value>>
\* unsafe; the caller guarantees index < len
get_unchecked(self, index) ==
    <<Hashed(self[index + 1].hash, self[index + 1].key), self[index + 1].value>>

len(self) == Len(self)
is_empty(self) == Len(self) = 0

(***************************************************************************)
(* Iteration: all iterators walk `buckets` front to back.                  *)
(***************************************************************************)
iter(self) == [i \in 1..Len(self) |-> <<self[i].key, self[i].value>>]
into_iter(self) == [i \in 1..Len(self) |-> <<self[i].key, self[i].value>>]
keys(self) == [i \in 1..Len(self) |-> self[i].key]
values(self) == [i \in 1..Len(self) |-> self[i].value]
iter_hashed(self) ==
    [i \in 1..Len(self) |-> <<Hashed(self[i].hash, self[i].key), self[i].value>>]

(***************************************************************************)
(* sort_keys: Vec::sort_by(|a, b| a.key.cmp(&b.key)), a stable sort.       *)
(***************************************************************************)
RECURSIVE InsertSortedUnstable(_, _)
InsertSortedUnstable(sorted, b) ==
    IF sorted = <<>> THEN <<b>>
    ELSE IF sorted[Len(sorted)].key < b.key THEN Append(sorted, b)
         ELSE Append(InsertSortedUnstable(SubSeq(sorted, 1, Len(sorted) - 1), b),
                     sorted[Len(sorted)])

RECURSIVE InsertSorted(_, _)
InsertSorted(sorted, b) ==
    IF sorted = <<>> THEN <<b>>
    ELSE IF sorted[Len(sorted)].key <= b.key THEN Append(sorted, b)
         ELSE Append(InsertSorted(SubSeq(sorted, 1, Len(sorted) - 1), b),
                     sorted[Len(sorted)])

RECURSIVE SortByKey(_)
SortByKey(v) ==
    IF v = <<>> THEN <<>>
    ELSE InsertSorted(SortByKey(SubSeq(v, 1, Len(v) - 1)), v[Len(v)])

eq_ordered(self, other_) == VecEq(self, other_)

(***************************************************************************)
(* The operations of VecMap that change the map.                           *)
(***************************************************************************)
Call(op, a, r) == [op |-> op, arg |-> a, ret |-> r]

\* insert_unique_unchecked(key: Hashed<K>, value): pushes a bucket, checks nothing
insert_unique_unchecked(key, value) ==
    /\ Len(log) < MaxInserts
    /\ buckets' = VecPush(buckets, Bucket(key.hash, key.key, value))
    /\ last' = Call("insert_unique_unchecked", <<key, value>>, None)
    /\ log' = Append(log, Bucket(key.hash, key.key, value))
    /\ UNCHANGED <<other, nRem, arg, out>>

\* remove_hashed_entry(key: Hashed<&Q>) -> Option<(K, V)>
remove_hashed_entry(key) ==
    LET r == IF Len(buckets) = 0 THEN None ELSE ScanFrom(buckets, key, 0)
    IN  /\ IF r = None
           THEN /\ UNCHANGED <<buckets, nRem>>
                /\ last' = Call("remove_hashed_entry", <<key>>, None)
           ELSE /\ buckets' = VecRemove(buckets, r[1])
                /\ nRem' = nRem + 1
                /\ last' = Call("remove_hashed_entry", <<key>>,
                                Some(<<buckets[r[1] + 1].key, buckets[r[1] + 1].value>>))
        /\ UNCHANGED <<other, log, arg, out>>

\* remove(index) -> (Hashed<K>, V); Vec::remove panics when index >= len
remove(index) ==
    /\ index < Len(buckets)
    /\ buckets' = VecRemove(buckets, index)
    /\ nRem' = nRem + 1
    /\ last' = Call("remove", <<index>>,
                    <<Hashed(buckets[index + 1].hash, buckets[index + 1].key),
                      buckets[index + 1].value>>)
    /\ UNCHANGED <<other, log, arg, out>>

\* pop() -> Option<(Hashed<K>, V)>
pop ==
    /\ IF Len(buckets) = 0
       THEN /\ UNCHANGED <<buckets, nRem>>
            /\ last' = Call("pop", <<>>, None)
       ELSE /\ buckets' = VecPop(buckets)
            /\ nRem' = nRem + 1
            /\ last' = Call("pop", <<>>,
                            Some(<<Hashed(buckets[Len(buckets)].hash,
                                          buckets[Len(buckets)].key),
                                   buckets[Len(buckets)].value>>))
    /\ UNCHANGED <<other, log, arg, out>>

clear ==
    /\ buckets' = <<>>
    /\ last' = Call("clear", <<>>, None)
    /\ UNCHANGED <<other, log, nRem, arg, out>>

sort_keys ==
    /\ buckets' = SortByKey(buckets)
    /\ last' = Call("sort_keys", <<>>, None)
    /\ UNCHANGED <<other, log, nRem, arg, out>>

\* the buckets after the caller has stored written[i] through the &mut V
\* handed out for the i-th bucket (storing the old value leaves it as it was)
WriteValues(self, written) ==
    [i \in 1..Len(self) |-> Bucket(self[i].hash, self[i].key, written[i])]

\* get_unchecked_mut(index) -> (Hashed<&K>, &mut V), unsafe: the caller
\* guarantees index < len; the caller then stores `value` through the &mut V
get_unchecked_mut(index, value) ==
    /\ index < Len(buckets)
    /\ buckets' = WriteValues(buckets,
                      [i \in 1..Len(buckets) |->
                          IF i = index + 1 THEN value ELSE buckets[i].value])
    /\ last' = Call("get_unchecked_mut", <<index, value>>,
                    <<Hashed(buckets[index + 1].hash, buckets[index + 1].key),
                      buckets[index + 1].value>>)
    /\ UNCHANGED <<other, log, nRem, arg, out>>

\* values_mut(): the iterator hands out the &mut V of every bucket, front to
\* back; the caller stores written[i] through the i-th of them
values_mut(written) ==
    /\ buckets' = WriteValues(buckets, written)
    /\ last' = Call("values_mut", <<written>>, None)
    /\ UNCHANGED <<other, log, nRem, arg, out>>

\* iter_mut(): the iterator hands out (&K, &mut V) of every bucket, front to
\* back; the caller stores written[i] through the i-th of them
iter_mut(written) ==
    /\ buckets' = WriteValues(buckets, written)
    /\ last' = Call("iter_mut", <<written>>, keys(buckets))
    /\ UNCHANGED <<other, log, nRem, arg, out>>

(***************************************************************************)
(* Specifications of the map.                                              *)
(***************************************************************************)
NoArg == [t |-> "Unit"]

MapInit ==
    /\ buckets = <<>>
    /\ other = <<>>
    /\ last = Call("new", <<>>, None)
    /\ log = <<>>
    /\ nRem = 0
    /\ arg = NoArg
    /\ out = <<>>

Present(k) == \E i \in 1..Len(buckets) : buckets[i].key = k

Insert ==
    \E key \in AllHashed, value \in Values :
        insert_unique_unchecked(key, value)

\* an insertion whose caller has established that the key is not present
InsertAbsent ==
    \E key \in AllHashed, value \in Values :
        /\ ~Present(key.key)
        /\ insert_unique_unchecked(key, value)

RemoveHashedEntry == \E key \in AllHashed : remove_hashed_entry(key)
Remove == \E index \in 0..(MaxInserts - 1) : remove(index)
Pop == pop
Clear == clear
SortKeys == sort_keys
GetUncheckedMut ==
    \E index \in 0..(MaxInserts - 1), value \in Values : get_unchecked_mut(index, value)
ValuesMut == \E written \in [1..Len(buckets) -> Values] : values_mut(written)
IterMut == \E written \in [1..Len(buckets) -> Values] : iter_mut(written)

\* every operation that takes &mut self, insertions unrestricted
Next ==
    \/ Insert
    \/ RemoveHashedEntry
    \/ Remove
    \/ Pop
    \/ Clear
    \/ SortKeys
    \/ GetUncheckedMut
    \/ ValuesMut
    \/ IterMut

Spec == MapInit /\ [][Next]_vars

\* an insertion whose key is drawn from the smaller set of keys, with any hash
InsertFewKeys ==
    \E key \in [hash : Hashes, key : FewKeys], value \in Values :
        insert_unique_unchecked(key, value)

\* every operation that takes &mut self, insertions unrestricted, the inserted
\* keys drawn from the smaller set
NextFewKeys ==
    \/ InsertFewKeys
    \/ RemoveHashedEntry
    \/ Remove
    \/ Pop
    \/ Clear
    \/ SortKeys
    \/ GetUncheckedMut
    \/ ValuesMut
    \/ IterMut

SpecFewKeys == MapInit /\ [][NextFewKeys]_vars

\* insertions with pairwise distinct keys into an empty map, nothing else
NextInsert == InsertAbsent

SpecInsert == MapInit /\ [][NextInsert]_vars

\* an insertion whose hashed key was built by Hashed::new: the hash is the
\* canonical hash of the key
InsertCanonical ==
    \E k \in Keys, value \in Values :
        insert_unique_unchecked(Hashed(CanonHash(k), k), value)

\* every operation that takes &mut self, each insertion passing the
\* canonical hash of its key
NextCanonical ==
    \/ InsertCanonical
    \/ RemoveHashedEntry
    \/ Remove
    \/ Pop
    \/ Clear
    \/ SortKeys
    \/ GetUncheckedMut
    \/ ValuesMut
    \/ IterMut

SpecCanonical == MapInit /\ [][NextCanonical]_vars

\* an insertion whose value is drawn from the wider set of values
InsertWide ==
    \E key \in AllHashed, value \in WideValues :
        insert_unique_unchecked(key, value)

\* insertions and removals only, the values drawn from the wider set
NextInsRem ==
    \/ InsertWide
    \/ RemoveHashedEntry
    \/ Remove
    \/ Pop

SpecInsRem == MapInit /\ [][NextInsRem]_vars

(***************************************************************************)
(* eq_ordered as a function of two maps: a map is drawn from the bounded   *)
(* set EqMaps, the other from its variants, then eq_ordered is applied.    *)
(***************************************************************************)
MaxEqLen == 2
MaxEqKey == 2
MaxEqValue == 2

EqBuckets == [hash : Hashes, key : 1..MaxEqKey, value : 1..MaxEqValue]
EqMaps == UNION {[1..n -> EqBuckets] : n \in 0..MaxEqLen}

Reversed(m) == [i \in 1..Len(m) |-> m[Len(m) + 1 - i]]

\* the maps a map is compared with: itself, itself with any one bucket
\* replaced by any bucket, with a bucket appended, without its last bucket,
\* and itself in the opposite order
Variants(m) ==
    {m, Reversed(m), SubSeq(m, 1, Len(m) - 1)}
    \cup {[m EXCEPT ![i] = b] : i \in 1..Len(m), b \in EqBuckets}
    \cup {Append(m, b) : b \in EqBuckets}

EqInit ==
    /\ buckets \in EqMaps
    /\ other \in Variants(buckets)
    /\ last = Call("new", <<>>, None)
    /\ log = <<>>
    /\ nRem = 0
    /\ arg = NoArg
    /\ out = <<>>

EqOrdered ==
    /\ last' = Call("eq_ordered", <<>>, Some(eq_ordered(buckets, other)))
    /\ UNCHANGED <<buckets, other, log, nRem, arg, out>>

NextEq == EqOrdered

SpecEq == EqInit /\ [][NextEq]_vars

(***************************************************************************)
(* Instruction arguments (instr_arg.rs).                                   *)
(*                                                                         *)
(* Text is a sequence of characters; String::len() is the length in bytes  *)
(* of the UTF-8 encoding, so a character has a width.  The model has one   *)
(* character outside ASCII, written "U+00E9", of width 2.                  *)
(*                                                                         *)
(* A FrozenValue is given by what the argument code reads of it: the text  *)
(* to_repr() returns and the text get_type() returns.                      *)
(***************************************************************************)
TruncateLimit == 100
MaxArrayLen == 2

WideChar == "U+00E9"

\* The characters of the model and their code points.  A printable ASCII
\* character (U+0020..U+007E) is written as itself, the grave accent as
\* "U+0060"; a control character
\* (U+0000..U+001F, U+007F..U+009F) is written "U+" and its code point, and
\* tab, line feed, form feed and carriage return also as "\t", "\n", "\f"
\* and "\r".  Text of the model has no other characters.
AsciiPrintable ==
    <<" ", "!", "\"", "#", "$", "%", "&", "'",
      "(", ")", "*", "+", ",", "-", ".", "/",
      "0", "1", "2", "3", "4", "5", "6", "7",
      "8", "9", ":", ";", "<", "=", ">", "?",
      "@", "A", "B", "C", "D", "E", "F", "G",
      "H", "I", "J", "K", "L", "M", "N", "O",
      "P", "Q", "R", "S", "T", "U", "V", "W",
      "X", "Y", "Z", "[", "\\", "]", "^", "_",
      "U+0060", "a", "b", "c", "d", "e", "f", "g",
      "h", "i", "j", "k", "l", "m", "n", "o",
      "p", "q", "r", "s", "t", "u", "v", "w",
      "x", "y", "z", "{", "|", "}", "~">>
C0Controls ==
    <<"U+0000", "U+0001", "U+0002", "U+0003", "U+0004", "U+0005", "U+0006", "U+0007",
      "U+0008", "U+0009", "U+000A", "U+000B", "U+000C", "U+000D", "U+000E", "U+000F",
      "U+0010", "U+0011", "U+0012", "U+0013", "U+0014", "U+0015", "U+0016", "U+0017",
      "U+0018", "U+0019", "U+001A", "U+001B", "U+001C", "U+001D", "U+001E", "U+001F">>
DelAndC1Controls ==
    <<"U+007F", "U+0080", "U+0081", "U+0082", "U+0083", "U+0084", "U+0085", "U+0086",
      "U+0087", "U+0088", "U+0089", "U+008A", "U+008B", "U+008C", "U+008D", "U+008E",
      "U+008F", "U+0090", "U+0091", "U+0092", "U+0093", "U+0094", "U+0095", "U+0096",
      "U+0097", "U+0098", "U+0099", "U+009A", "U+009B", "U+009C", "U+009D", "U+009E",
      "U+009F">>

IndexIn(names, c) == CHOOSE i \in 1..Len(names) : names[i] = c
Occurs(names, c) == \E i \in 1..Len(names) : names[i] = c

\* char as u32
CodePoint(c) ==
    CASE c = WideChar -> 233
      [] c = "\t" -> 9
      [] c = "\n" -> 10
      [] c = "\f" -> 12
      [] c = "\r" -> 13
      [] Occurs(AsciiPrintable, c) -> 31 + IndexIn(AsciiPrintable, c)
      [] Occurs(C0Controls, c) -> IndexIn(C0Controls, c) - 1
      [] Occurs(DelAndC1Controls, c) -> 126 + IndexIn(DelAndC1Controls, c)

\* whether {:?} writes the character of this code point as it is, for the
\* code points of the model: controls are not printable
IsPrintable(cp) == (cp >= 32 /\ cp < 127) \/ cp = 233

HexDigitChars ==
    <<"0", "1", "2", "3", "4", "5", "6", "7", "8", "9", "a", "b", "c", "d", "e", "f">>
RECURSIVE LowerHex(_)
LowerHex(n) ==
    IF n < 16 THEN <<HexDigitChars[n + 1]>>
    ELSE LowerHex(n \div 16) \o <<HexDigitChars[(n % 16) + 1]>>

\* char::len_utf8 for the code points of the model (all below U+0800)
Utf8Width(c) == IF CodePoint(c) < 128 THEN 1 ELSE 2

\* String::len(): the number of bytes, one for every character and one more
\* for every character of width 2
Utf8Len(text) ==
    Len(text) + Cardinality({i \in 1..Len(text) : Utf8Width(text[i]) = 2})

\* Display of an unsigned integer: its decimal digits
DigitChars == <<"0", "1", "2", "3", "4", "5", "6", "7", "8", "9">>
RECURSIVE Decimal(_)
Decimal(n) ==
    IF n < 10 THEN <<DigitChars[n + 1]>>
    ELSE Decimal(n \div 10) \o <<DigitChars[(n % 10) + 1]>>

\* Debug ({:?}) of a String: the text in double quotes; NUL, tab, carriage
\* return and line feed are written \0, \t, \r and \n, a backslash and a
\* double quote are preceded by a backslash, every other character that is
\* not printable is written \u{...} with its code point in lower-case
\* hexadecimal, and every printable character (the single quote included) is
\* written as it is
EscapeDebugChar(c) ==
    LET cp == CodePoint(c)
    IN  IF cp = 0 THEN <<"\\", "0">>
        ELSE IF cp = 9 THEN <<"\\", "t">>
        ELSE IF cp = 13 THEN <<"\\", "r">>
        ELSE IF cp = 10 THEN <<"\\", "n">>
        ELSE IF cp = 92 THEN <<"\\", "\\">>
        ELSE IF cp = 34 THEN <<"\\", "\"">>
        ELSE IF IsPrintable(cp) THEN <<c>>
        ELSE <<"\\", "u", "{">> \o LowerHex(cp) \o <<"}">>
RECURSIVE EscapeDebug(_)
EscapeDebug(text) ==
    IF text = <<>> THEN <<>>
    ELSE EscapeDebugChar(Head(text)) \o EscapeDebug(Tail(text))
DebugString(text) == <<"\"">> \o EscapeDebug(text) \o <<"\"">>

\* impl Display for TruncateValueRepr
TruncateValueReprAtLimit(v) ==
    IF Utf8Len(v.repr) >= TruncateLimit
    THEN <<"<">> \o v.type \o <<">">>
    ELSE v.repr
TruncateValueRepr(v) ==
    IF Utf8Len(v.repr) > TruncateLimit
    THEN <<"<">> \o v.type \o <<">">>
    ELSE v.repr

(***************************************************************************)
(* fmt_append of each impl of BcInstrArg.  An argument is a record whose   *)
(* field t names its type.                                                 *)
(***************************************************************************)
RECURSIVE fmt_append(_)
RECURSIVE pops_stack(_)
RECURSIVE pushes_stack(_)

Unit_fmt_append(param) == <<>>
U32_fmt_append(param) == <<" ">> \o Decimal(param.n)

Tuple2_fmt_append(param) == fmt_append(param.a) \o fmt_append(param.b)
Tuple3_fmt_append(param) ==
    fmt_append(param.a) \o fmt_append(param.b) \o fmt_append(param.c)
Tuple4_fmt_append(param) ==
    fmt_append(param.a) \o fmt_append(param.b) \o fmt_append(param.c)
        \o fmt_append(param.d)

Tuple2_pops_stack(param) == pops_stack(param.a) + pops_stack(param.b)
Tuple3_pops_stack_two(param) == pops_stack(param.a) + pops_stack(param.b)
Tuple3_pops_stack(param) ==
    pops_stack(param.a) + pops_stack(param.b) + pops_stack(param.c)
Tuple4_pops_stack(param) ==
    pops_stack(param.a) + pops_stack(param.b) + pops_stack(param.c)
        + pops_stack(param.d)

Tuple2_pushes_stack(param) == pushes_stack(param.a) + pushes_stack(param.b)
Tuple3_pushes_stack(param) ==
    pushes_stack(param.a) + pushes_stack(param.b) + pushes_stack(param.c)
Tuple4_pushes_stack(param) ==
    pushes_stack(param.a) + pushes_stack(param.b) + pushes_stack(param.c)
        + pushes_stack(param.d)

\* impl for [A; N]: `for a in param`, front to back
RECURSIVE Array_fmt_append_from(_, _)
Array_fmt_append_from(items, i) ==
    IF i > Len(items) THEN <<>>
    ELSE fmt_append(items[i]) \o Array_fmt_append_from(items, i + 1)
Array_fmt_append(param) == Array_fmt_append_from(param.items, 1)

RECURSIVE Array_pops_stack_from(_, _)
Array_pops_stack_from(items, i) ==
    IF i > Len(items) THEN 0
    ELSE pops_stack(items[i]) + Array_pops_stack_from(items, i + 1)
Array_pops_stack(param) == Array_pops_stack_from(param.items, 1)

RECURSIVE Array_pushes_stack_from(_, _)
Array_pushes_stack_from(items, i) ==
    IF i > Len(items) THEN 0
    ELSE pushes_stack(items[i]) + Array_pushes_stack_from(items, i + 1)
Array_pushes_stack(param) == Array_pushes_stack_from(param.items, 1)

BcAddrOffset_fmt_append(param) == <<" ", "+">> \o Decimal(param.n)
BcAddr_fmt_append(param) == <<" ">> \o Decimal(param.n)
FrozenValue_fmt_append(param) == <<" ">> \o TruncateValueRepr(param.v)
OptionFrozenValue_fmt_append(param) ==
    IF param.v = None THEN <<" ", "(", ")">>
    ELSE <<" ">> \o TruncateValueRepr(param.v[1])
FrozenStringValue_fmt_append(param) == <<" ">> \o TruncateValueRepr(param.v)
String_fmt_append(param) == DebugString(param.s)
FrozenRef_fmt_append(param) == <<" ">> \o param.display
FrozenValueTyped_fmt_append(param) == <<" ">> \o TruncateValueRepr(param.v)
LocalSlotId_fmt_append(param) == <<" ", "l">> \o Decimal(param.n)
ModuleSlotId_fmt_append(param) == <<" ", "m">> \o Decimal(param.n)
Span_fmt_append(param) ==
    <<" ">> \o Decimal(param.begin) \o <<":">> \o Decimal(param.end)
BcOpcode_fmt_append(param) == <<" ">> \o param.debug
ArgPushesStack_fmt_append(param) == U32_fmt_append([t |-> "U32", n |-> param.n])
ArgPopsStack_fmt_append(param) == U32_fmt_append([t |-> "U32", n |-> param.n])
ArgPopsStack1_fmt_append(param) == <<>>
ArgPopsStackMaybe1_fmt_append(param) == Decimal(IF param.flag THEN 1 ELSE 0)
VecSpans_fmt_append(param) == <<" ", "s", "p", "a", "n", "s">>
Symbol_fmt_append(param) == <<" ">> \o param.str

\* `for (i, v) in param.iter().enumerate()`, ", " before every element but the first
RECURSIVE ValuesJoined(_, _)
ValuesJoined(items, i) ==
    IF i > Len(items) THEN <<>>
    ELSE (IF i # 1 THEN <<",", " ">> ELSE <<>>)
             \o TruncateValueRepr(items[i]) \o ValuesJoined(items, i + 1)
BoxValues_fmt_append(param) ==
    <<" ", "[">> \o ValuesJoined(param.items, 1) \o <<"]">>

RECURSIVE HashedValuesJoined(_, _)
HashedValuesJoined(items, i) ==
    IF i > Len(items) THEN <<>>
    ELSE (IF i # 1 THEN <<",", " ">> ELSE <<>>)
             \o TruncateValueRepr(items[i].key) \o HashedValuesJoined(items, i + 1)
BoxHashedValues_fmt_append(param) ==
    <<" ", "[">> \o HashedValuesJoined(param.items, 1) \o <<"]">>

\* SmallMap<FrozenValue, FrozenValue>: entries is what param.iter() yields
RECURSIVE EntriesJoined(_, _)
EntriesJoined(entries, i) ==
    IF i > Len(entries) THEN <<>>
    ELSE (IF i # 1 THEN <<",", " ">> ELSE <<>>)
             \o TruncateValueRepr(entries[i][1]) \o <<":", " ">>
             \o TruncateValueRepr(entries[i][2]) \o EntriesJoined(entries, i + 1)
SmallMap_fmt_append(param) ==
    <<" ", "{">> \o EntriesJoined(param.entries, 1) \o <<"}">>

InstrDefData_fmt_append(param) == <<" ">> \o param.debug
ArgsCompiledValueBc_fmt_append(param) == <<" ", "{">> \o param.display \o <<"}">>

ArgPushesStack_pushes_stack(param) == param.n
ArgPopsStack_pops_stack(param) == param.n
ArgPopsStack1_pops_stack(param) == 1
ArgPopsStackMaybe1_pops_stack_always(param) == 1
ArgPopsStackMaybe1_pops_stack(param) == IF param.flag THEN 1 ELSE 0
ArgsCompiledValueBc_pops_stack(param) ==
    param.pos_named + (IF param.args THEN 1 ELSE 0) + (IF param.kwargs THEN 1 ELSE 0)

\* BcInstrArg::fmt_append, by the type of the argument
fmt_append(param) ==
    CASE param.t = "Unit" -> Unit_fmt_append(param)
      [] param.t = "U32" -> U32_fmt_append(param)
      [] param.t = "Tuple2" -> Tuple2_fmt_append(param)
      [] param.t = "Tuple3" -> Tuple3_fmt_append(param)
      [] param.t = "Tuple4" -> Tuple4_fmt_append(param)
      [] param.t = "Array" -> Array_fmt_append(param)
      [] param.t = "BcAddrOffset" -> BcAddrOffset_fmt_append(param)
      [] param.t = "BcAddr" -> BcAddr_fmt_append(param)
      [] param.t = "FrozenValue" -> FrozenValue_fmt_append(param)
      [] param.t = "OptionFrozenValue" -> OptionFrozenValue_fmt_append(param)
      [] param.t = "FrozenStringValue" -> FrozenStringValue_fmt_append(param)
      [] param.t = "String" -> String_fmt_append(param)
      [] param.t = "FrozenRef" -> FrozenRef_fmt_append(param)
      [] param.t = "FrozenValueTyped" -> FrozenValueTyped_fmt_append(param)
      [] param.t = "LocalSlotId" -> LocalSlotId_fmt_append(param)
      [] param.t = "ModuleSlotId" -> ModuleSlotId_fmt_append(param)
      [] param.t = "Span" -> Span_fmt_append(param)
      [] param.t = "BcOpcode" -> BcOpcode_fmt_append(param)
      [] param.t = "ArgPushesStack" -> ArgPushesStack_fmt_append(param)
      [] param.t = "ArgPopsStack" -> ArgPopsStack_fmt_append(param)
      [] param.t = "ArgPopsStack1" -> ArgPopsStack1_fmt_append(param)
      [] param.t = "ArgPopsStackMaybe1" -> ArgPopsStackMaybe1_fmt_append(param)
      [] param.t = "VecSpans" -> VecSpans_fmt_append(param)
      [] param.t = "Symbol" -> Symbol_fmt_append(param)
      [] param.t = "BoxValues" -> BoxValues_fmt_append(param)
      [] param.t = "BoxHashedValues" -> BoxHashedValues_fmt_append(param)
      [] param.t = "SmallMap" -> SmallMap_fmt_append(param)
      [] param.t = "InstrDefData" -> InstrDefData_fmt_append(param)
      [] param.t = "ArgsCompiledValueBc" -> ArgsCompiledValueBc_fmt_append(param)

\* the impls whose pops_stack and pushes_stack both return the literal 0
NoStackEffectTypes ==
    {"Unit", "U32", "BcAddrOffset", "BcAddr", "FrozenValue", "OptionFrozenValue",
     "FrozenStringValue", "String", "FrozenRef", "FrozenValueTyped", "LocalSlotId",
     "ModuleSlotId", "Span", "BcOpcode", "VecSpans", "Symbol", "BoxValues",
     "BoxHashedValues", "SmallMap", "InstrDefData"}

\* BcInstrArg::pops_stack, by the type of the argument
pops_stack(param) ==
    CASE param.t \in NoStackEffectTypes -> 0
      [] param.t = "Tuple2" -> Tuple2_pops_stack(param)
      [] param.t = "Tuple3" -> Tuple3_pops_stack(param)
      [] param.t = "Tuple4" -> Tuple4_pops_stack(param)
      [] param.t = "Array" -> Array_pops_stack(param)
      [] param.t = "ArgPushesStack" -> 0
      [] param.t = "ArgPopsStack" -> ArgPopsStack_pops_stack(param)
      [] param.t = "ArgPopsStack1" -> ArgPopsStack1_pops_stack(param)
      [] param.t = "ArgPopsStackMaybe1" -> ArgPopsStackMaybe1_pops_stack(param)
      [] param.t = "ArgsCompiledValueBc" -> ArgsCompiledValueBc_pops_stack(param)

\* BcInstrArg::pushes_stack, by the type of the argument
pushes_stack(param) ==
    CASE param.t \in NoStackEffectTypes -> 0
      [] param.t = "Tuple2" -> Tuple2_pushes_stack(param)
      [] param.t = "Tuple3" -> Tuple3_pushes_stack(param)
      [] param.t = "Tuple4" -> Tuple4_pushes_stack(param)
      [] param.t = "Array" -> Array_pushes_stack(param)
      [] param.t = "ArgPushesStack" -> ArgPushesStack_pushes_stack(param)
      [] param.t = "ArgPopsStack" -> 0
      [] param.t = "ArgPopsStack1" -> 0
      [] param.t = "ArgPopsStackMaybe1" -> 0
      [] param.t = "ArgsCompiledValueBc" -> 0

(***************************************************************************)
(* The arguments the functions are applied to.                             *)
(***************************************************************************)
Run(c, n) == [i \in 1..n |-> c]

T_int == <<"i", "n", "t">>
T_string == <<"s", "t", "r", "i", "n", "g">>
T_dict == <<"d", "i", "c", "t">>

\* a string value of n characters c: its repr is the string in double quotes
StringValue(c, n) == [repr |-> <<"\"">> \o Run(c, n) \o <<"\"">>, type |-> T_string]
IntValue(n) == [repr |-> Decimal(n), type |-> T_int]
\* a dict of n entries `1: 2`
RECURSIVE DictBody(_)
DictBody(n) ==
    IF n = 0 THEN <<>>
    ELSE (IF n > 1 THEN DictBody(n - 1) \o <<",", " ">> ELSE <<>>)
             \o <<"1", ":", " ", "2">>
DictValue(n) == [repr |-> <<"{">> \o DictBody(n) \o <<"}">>, type |-> T_dict]

\* reprs of 2, TruncateLimit - 1, TruncateLimit and TruncateLimit + 1 bytes
\* in ASCII, reprs with characters of two bytes on both sides of the limit,
\* and dicts of 1 and of 20 entries (a repr of 120 bytes)
LiteralValues ==
    {IntValue(7),
     StringValue("a", 0),
     StringValue("a", TruncateLimit - 3),
     StringValue("a", TruncateLimit - 2),
     StringValue("a", TruncateLimit - 1),
     StringValue(WideChar, (TruncateLimit \div 2) - 1),
     StringValue(WideChar, TruncateLimit \div 2),
     StringValue(WideChar, TruncateLimit - 1),
     DictValue(1),
     DictValue(20)}

SomeValues == {IntValue(7), StringValue("a", TruncateLimit - 1), DictValue(20)}

U32Samples == {0, 1, 7, 12, 345}
Texts == {<<>>, <<"a">>, <<"x", "\"", "y">>, <<"a", "\\">>, <<" ", "b">>,
          <<"a", "\n", "b">>, <<"\t", "\r">>, <<"U+0000", "'">>,
          <<"U+001B", WideChar>>, <<"a", "\f">>, <<"U+0002", "U+0085">>}
Names == {<<"x">>, <<"C", "o", "n", "s", "t">>}

Arg(t) == [t |-> t]

LeafArgs ==
    {Arg("Unit"), Arg("ArgPopsStack1"), Arg("VecSpans")}
    \cup [t : {"U32", "BcAddrOffset", "BcAddr", "LocalSlotId", "ModuleSlotId",
               "ArgPushesStack", "ArgPopsStack"}, n : U32Samples]
    \cup [t : {"FrozenValue", "FrozenStringValue", "FrozenValueTyped"}, v : LiteralValues]
    \cup [t : {"OptionFrozenValue"}, v : {None} \cup {Some(v) : v \in LiteralValues}]
    \cup [t : {"String"}, s : Texts]
    \cup [t : {"FrozenRef"}, display : Names]
    \cup [t : {"Symbol"}, str : Names \cup {<<>>}]
    \cup [t : {"BcOpcode", "InstrDefData"}, debug : Names]
    \cup [t : {"Span"}, begin : {0, 12}, end : {12, 18}]
    \cup [t : {"ArgPopsStackMaybe1"}, flag : BOOLEAN]
    \cup [t : {"ArgsCompiledValueBc"}, pos_named : {0, 2}, args : BOOLEAN,
          kwargs : BOOLEAN, display : Names]
    \cup [t : {"BoxValues"},
          items : UNION {[1..n -> SomeValues] : n \in 0..MaxArrayLen}]
    \cup [t : {"BoxHashedValues"},
          items : UNION {[1..n -> [hash : {0}, key : SomeValues]] : n \in 0..MaxArrayLen}]
    \cup [t : {"SmallMap"},
          entries : UNION {[1..n -> SomeValues \X SomeValues] : n \in 0..MaxArrayLen}]

\* the constituents composite arguments are built from
Parts ==
    {Arg("Unit"), Arg("ArgPopsStack1"),
     [t |-> "LocalSlotId", n |-> 3],
     [t |-> "ArgPopsStack", n |-> 2],
     [t |-> "ArgPushesStack", n |-> 1],
     [t |-> "FrozenValue", v |-> IntValue(7)]}
FewParts ==
    {Arg("ArgPopsStack1"),
     [t |-> "LocalSlotId", n |-> 3],
     [t |-> "ArgPushesStack", n |-> 1]}

Pairs == [t : {"Tuple2"}, a : Parts, b : Parts]
Triples == [t : {"Tuple3"}, a : FewParts, b : Parts, c : FewParts]
Quads == [t : {"Tuple4"}, a : FewParts, b : FewParts, c : FewParts, d : FewParts]
Arrays == [t : {"Array"}, items : UNION {[1..n -> FewParts] : n \in 0..MaxArrayLen}]

\* composites of composites
NestedParts ==
    {[t |-> "Tuple2", a |-> [t |-> "LocalSlotId", n |-> 3], b |-> Arg("ArgPopsStack1")],
     [t |-> "Tuple3", a |-> [t |-> "ArgPushesStack", n |-> 1],
                      b |-> [t |-> "FrozenValue", v |-> IntValue(7)],
                      c |-> [t |-> "ArgPopsStack", n |-> 2]],
     [t |-> "Array", items |-> <<Arg("ArgPopsStack1"), Arg("ArgPopsStack1")>>],
     [t |-> "Array", items |-> <<>>]}
Nested ==
    [t : {"Tuple2"}, a : NestedParts, b : NestedParts \cup FewParts]
    \cup [t : {"Array"}, items : UNION {[1..n -> NestedParts] : n \in 1..MaxArrayLen}]

ArgInputs == LeafArgs \cup Pairs \cup Triples \cup Quads \cup Arrays \cup Nested

ArgInit ==
    /\ arg \in ArgInputs
    /\ out = <<>>
    /\ last = Call("new", <<>>, None)
    /\ buckets = <<>>
    /\ other = <<>>
    /\ log = <<>>
    /\ nRem = 0

\* fmt_append(&arg, f) on a writer nothing was written to
FmtAppend ==
    /\ out = <<>>
    /\ out' = out \o fmt_append(arg)
    /\ last' = Call("fmt_append", <<>>, None)
    /\ UNCHANGED <<arg, buckets, other, log, nRem>>

PopsStack ==
    /\ last' = Call("pops_stack", <<>>, Some(pops_stack(arg)))
    /\ UNCHANGED <<arg, out, buckets, other, log, nRem>>

PushesStack ==
    /\ last' = Call("pushes_stack", <<>>, Some(pushes_stack(arg)))
    /\ UNCHANGED <<arg, out, buckets, other, log, nRem>>

NextArg ==
    \/ FmtAppend
    \/ PopsStack
    \/ PushesStack

SpecArg == ArgInit /\ [][NextArg]_vars

(***************************************************************************)
(* Properties of VecMap.                                                   *)
(***************************************************************************)
LogEntries == [i \in 1..Len(log) |-> <<log[i].key, log[i].value>>]

\* C1: after insertions with pairwise distinct keys into an empty map, every
\* iterator (iter, keys, values, iter_hashed, into_iter) yields the entries
\* in exactly the order in which they were inserted.
C1_IterationIsInsertionOrder ==
    /\ iter(buckets) = LogEntries
    /\ into_iter(buckets) = LogEntries
    /\ keys(buckets) = [i \in 1..Len(log) |-> log[i].key]
    /\ values(buckets) = [i \in 1..Len(log) |-> log[i].value]
    /\ iter_hashed(buckets) =
           [i \in 1..Len(log) |-> <<Hashed(log[i].hash, log[i].key), log[i].value>>]

\* three insertions, in an order that is not the key order
C1_Witness ==
    /\ last.op = "insert_unique_unchecked"
    /\ Len(log) = 3
    /\ keys(buckets) = <<3, 1, 2>>

\* C2: len() is the number of insertions minus the number of removals that
\* returned an entry, is_empty() holds exactly when that number is 0;
\* remove_hashed_entry of a key that is not present, and pop on an empty
\* map, return None and leave the bucket sequence unchanged.
C2_LenCountsInsertsMinusRemovals ==
    /\ [](/\ len(buckets) = Len(log) - nRem
          /\ is_empty(buckets) <=> (Len(log) - nRem = 0))
    /\ [][/\ (last'.op = "remove_hashed_entry" /\ ~Present(last'.arg[1].key))
              => (last'.ret = None /\ buckets' = buckets /\ nRem' = nRem)
          /\ (last'.op = "pop" /\ buckets = <<>>)
              => (last'.ret = None /\ buckets' = buckets /\ nRem' = nRem)
          /\ (last'.op \in {"remove_hashed_entry", "pop"} /\ last'.ret = None)
              => buckets' = buckets]_vars

\* a map with one entry left after three insertions and two removals, on
\* which the removal of a key that is not present has just returned None
C2_Witness ==
    /\ Len(log) = 3
    /\ nRem = 2
    /\ len(buckets) = 1
    /\ last.op = "remove_hashed_entry"
    /\ ~Present(last.arg[1].key)
    /\ last.ret = None

Matches(b, key) == b.hash = key.hash /\ Equivalent(key.key, b.key)

WriteOps == {"get_unchecked_mut", "values_mut", "iter_mut"}

\* get_full returns the first bucket whose stored hash equals the lookup hash
\* and whose key is equivalent, with its position, key and stored value, and
\* None when there is none; get_index of the position and get_index_of_hashed
\* agree; every bucket is found by its own hash and key, at its own position
\* or at that of an earlier bucket holding the same hash and key
LookupFindsFirstMatch ==
    /\ \A key \in AllHashed :
          LET r == get_full(buckets, key)
          IN  IF \A i \in 1..Len(buckets) : ~Matches(buckets[i], key)
              THEN /\ r = None
                   /\ get_index_of_hashed(buckets, key) = None
              ELSE /\ r # None
                   /\ r[1][1] + 1 \in 1..Len(buckets)
                   /\ Matches(buckets[r[1][1] + 1], key)
                   /\ \A j \in 1..r[1][1] : ~Matches(buckets[j], key)
                   /\ r[1][2] = buckets[r[1][1] + 1].key
                   /\ r[1][3] = buckets[r[1][1] + 1].value
                   /\ get_index(buckets, r[1][1]) = Some(<<r[1][2], r[1][3]>>)
                   /\ get_index_of_hashed(buckets, key) = Some(r[1][1])
    /\ \A i \in 1..Len(buckets) :
          LET r == get_full(buckets, Hashed(buckets[i].hash, buckets[i].key))
          IN  /\ r # None
              /\ r[1][1] <= i - 1
              /\ r[1][2] = buckets[i].key
    /\ get_index(buckets, Len(buckets)) = None

\* C3 as stated: for every key inserted and not since removed, get_full with
\* an equivalent key carrying the same hash returns its position, the key and
\* a value originally inserted with that key and hash, and get_index of that
\* position returns the same key and value; get_full returns the first bucket
\* whose stored hash equals the lookup hash and whose key is equivalent, None
\* when there is none.
C3_LookupFindsInserted ==
    /\ LookupFindsFirstMatch
    /\ \A i \in 1..Len(buckets) :
          LET r == get_full(buckets, Hashed(buckets[i].hash, buckets[i].key))
          IN  \E n \in 1..Len(log) :
                  log[n] = Bucket(buckets[i].hash, r[1][2], r[1][3])

\* the hashed key of the bucket that the removal step deletes
DeletedHashed ==
    IF last'.op = "remove" THEN last'.ret[1]
    ELSE IF last'.op = "pop" THEN last'.ret[1][1]
    ELSE last'.arg[1]

\* every lookup key in the set that found a bucket finds the same key and value
LookupsKept(lookupKeys) ==
    \A key \in lookupKeys :
        LET before == get_full(buckets, key)
            after == get_full(buckets', key)
        IN  before # None =>
                /\ after # None
                /\ after[1][2] = before[1][2]
                /\ after[1][3] = before[1][3]

\* C3 amended: for every key inserted and not since removed, get_full with an
\* equivalent key carrying the same hash returns the position, the key and
\* the value of the first bucket holding that hash and key, the value being
\* the one currently stored: the value inserted with the bucket, or the value
\* stored last through the &mut V of get_unchecked_mut, values_mut or
\* iter_mut; get_index of that position returns the same key and value.  A
\* bucket matches only if its stored hash equals the lookup hash and the keys
\* are equivalent, the first matching bucket in sequence order is returned,
\* None when no bucket matches.  Insertions and sort_keys keep the key and
\* value of every lookup that succeeded, a removal keeps them for every
\* lookup key other than that of the deleted bucket, and a store changes
\* values only, get_unchecked_mut that of the bucket written and no other.
C3_LookupFindsStored ==
    /\ [](/\ LookupFindsFirstMatch
          /\ last.op = "insert_unique_unchecked" =>
                LET r == get_full(buckets, last.arg[1])
                IN  /\ get_index(buckets, Len(buckets) - 1)
                           = Some(<<last.arg[1].key, last.arg[2]>>)
                    /\ r # None
                    /\ r[1][1] = Len(buckets) - 1 => r[1][3] = last.arg[2]
          /\ last.op = "get_unchecked_mut" =>
                LET r == get_full(buckets, last.ret[1])
                IN  /\ get_index(buckets, last.arg[1])
                           = Some(<<last.ret[1].key, last.arg[2]>>)
                    /\ r # None
                    /\ r[1][1] = last.arg[1] => r[1][3] = last.arg[2]
          /\ last.op \in {"values_mut", "iter_mut"} =>
                \A i \in 1..Len(buckets) :
                    LET r == get_full(buckets, Hashed(buckets[i].hash, buckets[i].key))
                    IN  /\ get_index(buckets, i - 1)
                               = Some(<<buckets[i].key, last.arg[1][i]>>)
                        /\ r[1][3] = last.arg[1][r[1][1] + 1])
    /\ [][/\ last'.op \in {"insert_unique_unchecked", "sort_keys"} =>
                LookupsKept(AllHashed)
          /\ (last'.op \in {"remove", "remove_hashed_entry", "pop"}
                 /\ Len(buckets') < Len(buckets)) =>
                LookupsKept(AllHashed \ {DeletedHashed})
          /\ (last'.op \in {"remove_hashed_entry", "pop"}
                 /\ Len(buckets') = Len(buckets)) =>
                buckets' = buckets
          /\ last'.op = "get_unchecked_mut" =>
                /\ Len(buckets') = Len(buckets)
                /\ \A i \in 1..Len(buckets) :
                      i # last'.arg[1] + 1 => buckets'[i] = buckets[i]
          /\ last'.op \in WriteOps =>
                /\ Len(buckets') = Len(buckets)
                /\ \A i \in 1..Len(buckets) :
                      buckets'[i].hash = buckets[i].hash /\ buckets'[i].key = buckets[i].key]_vars

\* two buckets with the same hash and key around a bucket with the same hash
\* and another key; a value that was never inserted has just been stored in
\* the first of them through get_unchecked_mut, and the lookup of the hash
\* and key returns position 0 with that value, not the bucket at position 2
C3_Witness ==
    /\ Len(buckets) = 3
    /\ Hashed(buckets[3].hash, buckets[3].key) = Hashed(buckets[1].hash, buckets[1].key)
    /\ buckets[2].hash = buckets[1].hash
    /\ buckets[2].key # buckets[1].key
    /\ last.op = "get_unchecked_mut"
    /\ last.arg[1] = 0
    /\ last.arg[2] # last.ret[2]
    /\ buckets[3].value # last.arg[2]
    /\ \A n \in 1..Len(log) : log[n].key = buckets[1].key => log[n].value # last.arg[2]
    /\ get_full(buckets, Hashed(buckets[3].hash, buckets[3].key))
           = Some(<<0, buckets[3].key, last.arg[2]>>)
    /\ get_full(buckets, Hashed(1 - buckets[3].hash, buckets[3].key)) = None

\* position i (0-based) was deleted and nothing else changed
DeletedAt(i) ==
    /\ Len(buckets') = Len(buckets) - 1
    /\ \A j \in 1..Len(buckets') :
          buckets'[j] = IF j <= i THEN buckets[j] ELSE buckets[j + 1]

\* C4: every removal deletes exactly one bucket, returns its key and value
\* and leaves the other buckets unchanged and in the same relative order;
\* pop deletes the last bucket; removing b from a,b,c with values 1,2,3
\* leaves [(a,1),(c,3)].
C4_RemovalFrame ==
    [][/\ last'.op = "remove" =>
            /\ DeletedAt(last'.arg[1])
            /\ last'.ret = <<Hashed(buckets[last'.arg[1] + 1].hash,
                                    buckets[last'.arg[1] + 1].key),
                             buckets[last'.arg[1] + 1].value>>
       /\ (last'.op = "remove_hashed_entry" /\ last'.ret # None) =>
            \E i \in 0..(Len(buckets) - 1) :
                /\ DeletedAt(i)
                /\ Matches(buckets[i + 1], last'.arg[1])
                /\ last'.ret = Some(<<buckets[i + 1].key, buckets[i + 1].value>>)
       /\ (last'.op = "remove_hashed_entry" /\ Present(last'.arg[1].key)
              /\ \E i \in 1..Len(buckets) : Matches(buckets[i], last'.arg[1])) =>
            last'.ret # None
       /\ (last'.op = "pop" /\ buckets # <<>>) =>
            /\ DeletedAt(Len(buckets) - 1)
            /\ last'.ret = Some(<<Hashed(buckets[Len(buckets)].hash,
                                         buckets[Len(buckets)].key),
                                  buckets[Len(buckets)].value>>)
       /\ (/\ iter(buckets) = <<<<1, 1>>, <<2, 2>>, <<3, 3>>>>
           /\ last'.op = "remove_hashed_entry"
           /\ last'.arg[1] = Hashed(buckets[2].hash, 2)) =>
            iter(buckets') = <<<<1, 1>>, <<3, 3>>>>]_vars

\* keys 1, 2, 3 inserted with values 1, 2, 3, then key 2 removed
C4_Witness ==
    /\ LogEntries = <<<<1, 1>>, <<2, 2>>, <<3, 3>>>>
    /\ last.op = "remove_hashed_entry"
    /\ last.arg[1].key = 2
    /\ last.ret = Some(<<2, 2>>)
    /\ nRem = 1
    /\ iter(buckets) = <<<<1, 1>>, <<3, 3>>>>

\* C8 as stated: eq_ordered(a, b) holds exactly when a and b have the same
\* length and equal keys and values at every position, whatever the hashes.
C8_EqIgnoresHash ==
    last.op = "eq_ordered" =>
        (last.ret = Some(TRUE) <=>
            /\ Len(buckets) = Len(other)
            /\ \A i \in 1..Len(buckets) :
                  /\ buckets[i].key = other[i].key
                  /\ buckets[i].value = other[i].value)

\* C8 amended: two buckets are equal exactly when their stored hashes, keys
\* and values are equal; eq_ordered(a, b) holds exactly when a and b have the
\* same length and equal hash, key and value at every position, and is false
\* for two maps whose entries come in a different order.
C8_EqComparesHashKeyValue ==
    last.op = "eq_ordered" =>
        /\ last.ret = Some(TRUE) <=>
              /\ Len(buckets) = Len(other)
              /\ \A i \in 1..Len(buckets) :
                    /\ buckets[i].hash = other[i].hash
                    /\ buckets[i].key = other[i].key
                    /\ buckets[i].value = other[i].value
        /\ iter(buckets) # iter(other) => last.ret = Some(FALSE)
        /\ last.ret \in {Some(TRUE), Some(FALSE)}

\* two maps with the same keys and values and different stored hashes
C8_Witness ==
    /\ last.op = "eq_ordered"
    /\ Len(buckets) = 2
    /\ iter(buckets) = iter(other)
    /\ buckets[1].hash # other[1].hash
    /\ last.ret = Some(FALSE)

NoDuplicateKeys(self) ==
    \A i, j \in 1..Len(self) : self[i].key = self[j].key => i = j

\* C10: as long as every insert_unique_unchecked is called with a key that
\* is not present, no two buckets hold equal keys, whatever removals, pops,
\* clears and sorts come between; an insertion of a key that is present
\* appends a second bucket, len grows by 1, every lookup that succeeded
\* keeps returning the bucket it returned before, and remove_hashed_entry
\* deletes only the first matching bucket.
C10_UniqueKeysUnlessViolated ==
    [][/\ (/\ NoDuplicateKeys(buckets)
           /\ last'.op = "insert_unique_unchecked" => ~Present(last'.arg[1].key))
          => NoDuplicateKeys(buckets')
       /\ (last'.op = "insert_unique_unchecked" /\ Present(last'.arg[1].key)) =>
          /\ buckets' = buckets \o <<Bucket(last'.arg[1].hash, last'.arg[1].key,
                                            last'.arg[2])>>
          /\ len(buckets') = len(buckets) + 1
          /\ ~NoDuplicateKeys(buckets')
          /\ \A key \in AllHashed :
                get_full(buckets, key) # None =>
                    get_full(buckets', key) = get_full(buckets, key)
       /\ (last'.op = "remove_hashed_entry" /\ last'.ret # None) =>
          LET first == CHOOSE i \in 1..Len(buckets) :
                           /\ Matches(buckets[i], last'.arg[1])
                           /\ \A j \in 1..(i - 1) : ~Matches(buckets[j], last'.arg[1])
          IN  /\ DeletedAt(first - 1)
              /\ last'.ret = Some(<<buckets[first].key, buckets[first].value>>)]_vars

\* a key inserted twice with the same hash and two values, then removed once:
\* the bucket inserted second is the one left
C10_Witness ==
    /\ Len(log) = 3
    /\ log[2].key = log[3].key
    /\ log[2].hash = log[3].hash
    /\ log[2].value # log[3].value
    /\ log[1].key # log[2].key
    /\ last.op = "remove_hashed_entry"
    /\ last.arg[1] = Hashed(log[2].hash, log[2].key)
    /\ buckets = <<log[1], log[3]>>

(***************************************************************************)
(* Properties of the instruction arguments.                                *)
(***************************************************************************)
IsComposite(a) == a.t \in {"Tuple2", "Tuple3", "Tuple4", "Array"}

\* the constituents of a composite argument, in declared order
Constituents(a) ==
    CASE a.t = "Tuple2" -> <<a.a, a.b>>
      [] a.t = "Tuple3" -> <<a.a, a.b, a.c>>
      [] a.t = "Tuple4" -> <<a.a, a.b, a.c, a.d>>
      [] a.t = "Array" -> a.items

RECURSIVE ConcatFragments(_, _)
ConcatFragments(parts, n) ==
    IF n = 0 THEN <<>> ELSE ConcatFragments(parts, n - 1) \o fmt_append(parts[n])

RECURSIVE TotalPops(_, _)
TotalPops(parts, n) ==
    IF n = 0 THEN 0 ELSE TotalPops(parts, n - 1) + pops_stack(parts[n])

RECURSIVE TotalPushes(_, _)
TotalPushes(parts, n) ==
    IF n = 0 THEN 0 ELSE TotalPushes(parts, n - 1) + pushes_stack(parts[n])

\* C5: for a composite argument (pair, triple, quadruple, array, nested or
\* not) pops_stack and pushes_stack are the sums over its constituents and
\* fmt_append writes the constituents' fragments one after the other in
\* declared order; an empty array writes nothing and counts 0.
C5_CompositeSumsAndConcatenates ==
    IsComposite(arg) =>
        LET parts == Constituents(arg)
        IN  /\ last.op = "fmt_append" => out = ConcatFragments(parts, Len(parts))
            /\ last.op = "pops_stack" => last.ret = Some(TotalPops(parts, Len(parts)))
            /\ last.op = "pushes_stack" => last.ret = Some(TotalPushes(parts, Len(parts)))
            /\ parts = <<>> =>
                  /\ out = <<>>
                  /\ last.op \in {"pops_stack", "pushes_stack"} => last.ret = Some(0)

\* a triple of a slot, a constant and a pop-count wrapper, rendered and counted
C5_Witness ==
    /\ arg = [t |-> "Tuple3", a |-> [t |-> "LocalSlotId", n |-> 3],
                              b |-> [t |-> "FrozenValue", v |-> IntValue(7)],
                              c |-> Arg("ArgPopsStack1")]
    /\ out = <<" ", "l", "3", " ", "7">>
    /\ last.op = "pops_stack"
    /\ last.ret = Some(1)

\* the rendering of one embedded literal value: its type tag in angle
\* brackets when it is too long, its textual form otherwise
Literal(v, tooLong) == IF tooLong THEN <<"<">> \o v.type \o <<">">> ELSE v.repr

TooManyChars(v) == Len(v.repr) > TruncateLimit
TooManyBytes(v) == Utf8Len(v.repr) > TruncateLimit

RECURSIVE Joined(_, _)
Joined(fragments, n) ==
    IF n = 0 THEN <<>>
    ELSE IF n = 1 THEN fragments[1]
    ELSE Joined(fragments, n - 1) \o <<",", " ">> \o fragments[n]

\* what an argument that embeds literal values renders to, TooLong(v) saying
\* which values are too long
RenderedWith(a, TooLong(_)) ==
    CASE a.t \in {"FrozenValue", "FrozenStringValue", "FrozenValueTyped"} ->
            <<" ">> \o Literal(a.v, TooLong(a.v))
      [] a.t = "OptionFrozenValue" ->
            IF a.v = None THEN <<" ", "(", ")">>
            ELSE <<" ">> \o Literal(a.v[1], TooLong(a.v[1]))
      [] a.t = "BoxValues" ->
            <<" ", "[">>
            \o Joined([i \in 1..Len(a.items) |->
                          Literal(a.items[i], TooLong(a.items[i]))], Len(a.items))
            \o <<"]">>
      [] a.t = "BoxHashedValues" ->
            <<" ", "[">>
            \o Joined([i \in 1..Len(a.items) |->
                          Literal(a.items[i].key, TooLong(a.items[i].key))], Len(a.items))
            \o <<"]">>
      [] a.t = "SmallMap" ->
            <<" ", "{">>
            \o Joined([i \in 1..Len(a.entries) |->
                          Literal(a.entries[i][1], TooLong(a.entries[i][1]))
                          \o <<":", " ">>
                          \o Literal(a.entries[i][2], TooLong(a.entries[i][2]))],
                      Len(a.entries))
            \o <<"}">>

EmbedsLiterals(a) ==
    a.t \in {"FrozenValue", "FrozenStringValue", "FrozenValueTyped",
             "OptionFrozenValue", "BoxValues", "BoxHashedValues", "SmallMap"}

\* C6 as stated: an embedded literal value whose textual form has more than
\* 100 characters renders as its type tag in angle brackets, one of 100
\* characters or fewer renders its full textual form.
C6_TruncatesOver100Characters ==
    (last.op = "fmt_append" /\ EmbedsLiterals(arg)) =>
        out = RenderedWith(arg, TooManyChars)

\* C6 amended: an embedded literal value whose textual form is longer than
\* 100 bytes in UTF-8 renders as its type tag in angle brackets and nothing
\* of its content; one of 100 bytes or fewer (exactly 100 included) renders
\* its full textual form; so for every argument that embeds literal values.
C6_TruncatesOver100Bytes ==
    (last.op = "fmt_append" /\ EmbedsLiterals(arg)) =>
        out = RenderedWith(arg, TooManyBytes)

\* a string of 52 characters and 102 bytes rendered as its type tag
C6_Witness ==
    /\ arg.t = "FrozenValue"
    /\ Len(arg.v.repr) <= TruncateLimit
    /\ Utf8Len(arg.v.repr) > TruncateLimit
    /\ last.op = "fmt_append"
    /\ out = <<" ", "<", "s", "t", "r", "i", "n", "g", ">">>

\* C7: fmt_append appends nothing or a fragment that begins with a space.
C7_FragmentsBeginWithSpace ==
    last.op = "fmt_append" => (out = <<>> \/ out[1] = " ")

\* C9: ArgPopsStack1 pops 1, ArgPopsStackMaybe1(flag) pops 1 when flag is
\* true and 0 otherwise, ArgPopsStack(n) pops n, all three push 0;
\* ArgPushesStack(n) pushes n and pops 0; the call-arguments descriptor pops
\* pos_named plus 1 for *args plus 1 for **kwargs and pushes 0; every other
\* non-composite argument pops 0 and pushes 0.
C9_WrapperCounts ==
    ~IsComposite(arg) =>
        /\ last.op = "pops_stack" =>
              last.ret = Some(
                  CASE arg.t = "ArgPopsStack1" -> 1
                    [] arg.t = "ArgPopsStackMaybe1" -> IF arg.flag THEN 1 ELSE 0
                    [] arg.t = "ArgPopsStack" -> arg.n
                    [] arg.t = "ArgsCompiledValueBc" ->
                          arg.pos_named + (IF arg.args THEN 1 ELSE 0)
                              + (IF arg.kwargs THEN 1 ELSE 0)
                    [] OTHER -> 0)
        /\ last.op = "pushes_stack" =>
              last.ret = Some(IF arg.t = "ArgPushesStack" THEN arg.n ELSE 0)

\* pops_stack of ArgPopsStackMaybe1(false)
C9_Witness ==
    /\ arg = [t |-> "ArgPopsStackMaybe1", flag |-> FALSE]
    /\ last.op = "pops_stack"
    /\ last.ret = Some(0)

(***************************************************************************)
(* Properties of sort_keys.                                                *)
(***************************************************************************)
Count(seq, b) == Cardinality({i \in 1..Len(seq) : seq[i] = b})

SameBuckets(a, b) ==
    /\ Len(a) = Len(b)
    /\ \A i \in 1..Len(a) : Count(a, a[i]) = Count(b, a[i])

\* C11: sort_keys leaves the same (hash, key, value) buckets and the same
\* length, in non-decreasing key order; every lookup that succeeded before
\* succeeds after it with the same key and value, a lookup that failed
\* still fails, and sorting again changes nothing.
C11_SortKeysPermutesInKeyOrder ==
    [][last'.op = "sort_keys" =>
          /\ len(buckets') = len(buckets)
          /\ SameBuckets(buckets, buckets')
          /\ \A i, j \in 1..Len(buckets') :
                i < j => buckets'[i].key <= buckets'[j].key
          /\ \A key \in AllHashed :
                LET before == get_full(buckets, key)
                    after == get_full(buckets', key)
                IN  IF before = None THEN after = None
                    ELSE /\ after # None
                         /\ after[1][2] = before[1][2]
                         /\ after[1][3] = before[1][3]
          /\ SortByKey(buckets') = buckets'
          /\ last.op = "sort_keys" => buckets' = buckets]_vars

\* keys inserted in the order 3, 1, 2 and then sorted
C11_Witness ==
    /\ last.op = "sort_keys"
    /\ keys(log) = <<3, 1, 2>>
    /\ nRem = 0
    /\ keys(buckets) = <<1, 2, 3>>
    /\ SameBuckets(log, buckets)

(***************************************************************************)
(* Properties of the stored hashes.                                        *)
(***************************************************************************)
\* the hashed key carries a hash that was supplied with that key at an insertion
SuppliedAtInsertion(hashed) ==
    \E j \in 1..Len(log) : log[j].key = hashed.key /\ log[j].hash = hashed.hash

\* C12: when every insertion passes the canonical hash of its key, every
\* bucket's stored hash is the canonical hash of its key, no operation
\* changes the stored hash of a bucket, and the Hashed values that remove,
\* pop, get_unchecked and get_unchecked_mut rebuild carry the hash supplied
\* when the key was inserted.
C12_StoredHashIsCanonical ==
    /\ [](/\ \A i \in 1..Len(buckets) :
                /\ buckets[i].hash = CanonHash(buckets[i].key)
                /\ get_unchecked(buckets, i - 1)[1].key = buckets[i].key
                /\ get_unchecked(buckets, i - 1)[1].hash = CanonHash(buckets[i].key)
                /\ SuppliedAtInsertion(get_unchecked(buckets, i - 1)[1])
          /\ last.op \in {"remove", "get_unchecked_mut"} =>
                /\ last.ret[1].hash = CanonHash(last.ret[1].key)
                /\ SuppliedAtInsertion(last.ret[1])
          /\ (last.op = "pop" /\ last.ret # None) =>
                /\ last.ret[1][1].hash = CanonHash(last.ret[1][1].key)
                /\ SuppliedAtInsertion(last.ret[1][1]))
    /\ [][/\ last'.op \in {"get_unchecked_mut", "values_mut", "iter_mut"} =>
                /\ Len(buckets') = Len(buckets)
                /\ \A i \in 1..Len(buckets) :
                      buckets'[i].hash = buckets[i].hash /\ buckets'[i].key = buckets[i].key
          /\ last'.op = "get_unchecked_mut" =>
                /\ last'.ret[1].key = buckets[last'.arg[1] + 1].key
                /\ last'.ret[1].hash = buckets[last'.arg[1] + 1].hash
          /\ last'.op \in {"remove_hashed_entry", "remove", "pop", "clear", "sort_keys"} =>
                \A i \in 1..Len(buckets') : Count(buckets', buckets'[i]) <= Count(buckets, buckets'[i])
          /\ last'.op = "insert_unique_unchecked" =>
                /\ SubSeq(buckets', 1, Len(buckets)) = buckets
                /\ buckets'[Len(buckets')].hash = last'.arg[1].hash]_vars

\* two keys with different canonical hashes inserted, the map sorted, and the
\* bucket of the key inserted first popped with its hash
C12_Witness ==
    /\ Len(log) = 2
    /\ log[1].key > log[2].key
    /\ log[1].hash # log[2].hash
    /\ last.op = "pop"
    /\ last.ret = Some(<<Hashed(CanonHash(log[1].key), log[1].key), log[1].value>>)
    /\ buckets = <<log[2]>>

====
